---- MODULE Spec2Model ----
(***************************************************************************)
(* Model of the snap-Eat scan pipeline: the App session state (App.tsx),   *)
(* the Scanning effect with its timers and liveness flag (Scanning.tsx)    *)
(* and the layout selection of the Results screen (Results.tsx).           *)
(***************************************************************************)
EXTENDS Integers, Sequences, FiniteSets, TLC

(* ------------------------------- bounds -------------------------------- *)

\* number of scans (Scanning mounts) explored in one session
MaxScans == 2
\* longest dish list in one analysis response
MaxDishes == 2
\* first value Date.now() can return, and how far beyond it readings are explored
StartTime == 10
TimeSpan == 2
MaxTime == StartTime + TimeSpan
\* progress (in tenths of a percent point) above which ticks are not explored
TickCap == 30
\* longest savedItems list explored
MaxSaved == 2
\* number of equal steps of the 0-1000 scale from which box coordinates are drawn
CoordSteps == 3

(* ------------------------------ variables ------------------------------ *)

VARIABLES currentScreen, uploadedImage, currentResults, history, savedItems,
          runs, now, response, selectedItem, modalViewMode

vars == <<currentScreen, uploadedImage, currentResults, history, savedItems,
          runs, now, response, selectedItem, modalViewMode>>

appVars == <<currentScreen, uploadedImage, currentResults, history, savedItems>>

\* the state of the Results component: the dish of the detail modal (<<>> is
\* null) and the image mode of the modal
resultsVars == <<selectedItem, modalViewMode>>

(* ------------------------------ data model ----------------------------- *)

\* uploadedImage: string | null
NoImage == "null"

\* URL.createObjectURL(file): a fresh blob URL per selected file
createObjectURL(n) == "blob:" \o ToString(n)

\* {...d, k: v, ...}: object spread followed by explicit properties
Spread(d, over) ==
    [f \in (DOMAIN d) \cup (DOMAIN over) |->
        IF f \in DOMAIN over THEN over[f] ELSE d[f]]

\* the properties of an object other than f
Without(d, f) == [g \in (DOMAIN d) \ {f} |-> d[g]]

\* dish objects as the analysis service may return them
RawPho ==
    [name |-> "Pho", originalName |-> "Pho bo", englishName |-> "Pho",
     description |-> "Beef noodle soup", tags |-> <<"Umami">>,
     allergens |-> <<"Gluten">>, spiceLevel |-> "Mild", category |-> "Soup",
     boundingBox |-> <<200, 100, 600, 400>>]

\* a dish without the required name, tags, allergens and boundingBox
RawSparse ==
    [originalName |-> "Phat thai", englishName |-> "Pad Thai",
     description |-> "Fried noodles", spiceLevel |-> "Medium",
     category |-> "Main"]

\* the dish lists of a response: the first n entries of a menu on which
\* complete and sparse dishes alternate
MenuEntry(i) == IF i % 2 = 1 THEN RawPho ELSE RawSparse

DishLists == {[i \in 1..n |-> MenuEntry(i)] : n \in 0..MaxDishes}

EmptyObject == [f \in {} |-> TRUE]

\* the values JSON.parse can return for a response of the analysis service
ParsedObjects ==
    {EmptyObject}
    \cup {[dishes |-> ds] : ds \in DishLists}
    \cup {[isMenu |-> m, dishes |-> ds] : m \in BOOLEAN, ds \in DishLists}

\* a JSON document: well formed (with the value it parses to) or not
Bodies ==
    {[ok |-> TRUE, value |-> v] : v \in ParsedObjects}
    \cup {[ok |-> FALSE, value |-> EmptyObject]}

(* --------------------------- response text ----------------------------- *)

\* A response text is pre \o body \o post: a JSON document (body) between
\* two runs of characters.  "BT" is a backtick, "NL" a newline, "SP" a space;
\* the body neither starts nor ends with a backtick or white space.
Fence == <<"BT", "BT", "BT">>
FenceJson == Fence \o <<"j", "s", "o", "n">>

\* the texts the service may put around the document
Wrappers ==
    { [pre |-> <<>>, post |-> <<>>],
      [pre |-> FenceJson \o <<"NL">>, post |-> <<"NL">> \o Fence],
      [pre |-> Fence \o <<"NL">>, post |-> <<"NL">> \o Fence],
      [pre |-> FenceJson \o <<"NL">>, post |-> <<"NL">> \o Fence \o <<"NL">>] }

\* response objects of ai.models.generateContent: text may be empty
Responses ==
    {[empty |-> TRUE, pre |-> <<>>, body |-> [ok |-> FALSE, value |-> EmptyObject],
      post |-> <<>>]}
    \cup {[empty |-> FALSE, pre |-> w.pre, body |-> b, post |-> w.post] :
            w \in Wrappers, b \in Bodies}

StartsWith(s, p) == Len(s) >= Len(p) /\ SubSeq(s, 1, Len(p)) = p
EndsWith(s, p) == Len(s) >= Len(p) /\ SubSeq(s, Len(s) - Len(p) + 1, Len(s)) = p
Drop(s, n) == SubSeq(s, n + 1, Len(s))

\* \s of a regular expression, restricted to the characters modelled
IsSpace(c) == c \in {"NL", "SP"}

\* s.replace(/^p\s?/, '') for a literal p
ReplacePrefix(s, p) ==
    IF StartsWith(s, p)
    THEN LET rest == Drop(s, Len(p))
         IN  IF rest # <<>> /\ IsSpace(Head(rest)) THEN Tail(rest) ELSE rest
    ELSE s

\* s.replace(/```$/, ''): $ matches at the very end of the string only
ReplaceTrailingFence(s) ==
    IF EndsWith(s, Fence) THEN SubSeq(s, 1, Len(s) - 3) ELSE s

\* let jsonText = response.text || "{}"
ResponseText(resp) ==
    IF resp.empty
    THEN [pre |-> <<>>, body |-> [ok |-> TRUE, value |-> EmptyObject], post |-> <<>>]
    ELSE [pre |-> resp.pre, body |-> resp.body, post |-> resp.post]

\* if (jsonText.startsWith('```')) jsonText = jsonText.replace(...)...
StripFence(t) ==
    IF StartsWith(t.pre, Fence)
    THEN [pre |-> ReplacePrefix(ReplacePrefix(t.pre, FenceJson), Fence),
          body |-> t.body,
          post |-> ReplaceTrailingFence(t.post)]
    ELSE t

\* JSON.parse accepts a well-formed document surrounded by white space only
JsonParses(t) ==
    /\ t.body.ok
    /\ \A i \in 1..Len(t.pre) : IsSpace(t.pre[i])
    /\ \A i \in 1..Len(t.post) : IsSpace(t.post[i])

JsonParse(t) == t.body.value

(* ------------------------------ normaliser ----------------------------- *)

\* encodeURIComponent on the names modelled
encodeURIComponent(s) ==
    CASE s = "Pad Thai" -> "Pad%20Thai"
      [] OTHER -> s

\* d.englishName || d.name
WorkingName(d) ==
    IF "englishName" \in DOMAIN d THEN d.englishName
    ELSE IF "name" \in DOMAIN d THEN d.name
    ELSE "undefined"

PromptUrl(d) ==
    "https://image.pollinations.ai/prompt/" \o encodeURIComponent(WorkingName(d))
        \o "%20delicious%20food%20professional%20photography%204k?nologo=true"

\* const isMenu = parsedData.isMenu || false
ScanIsMenu(parsedData) ==
    IF "isMenu" \in DOMAIN parsedData THEN parsedData.isMenu ELSE FALSE

\* const dishesList = parsedData.dishes || []
DishesList(parsedData) ==
    IF "dishes" \in DOMAIN parsedData THEN parsedData.dishes ELSE <<>>

\* mutant of DishId: the index is left out of the id
DishIdNoIndex(t, index) == ToString(t)

\* Date.now().toString() + index (index counts from 0)
DishId(t, index) == ToString(t) \o ToString(index)

\* mutant of ProcessDishes: every dish gets the uploaded photo as its image
ProcessDishesAlwaysUpload(parsedData, image, times) ==
    LET isMenu == ScanIsMenu(parsedData)
        dishesList == DishesList(parsedData)
    IN  [i \in 1..Len(dishesList) |->
            Spread(dishesList[i],
                   [id |-> DishId(times[i], i - 1),
                    image |-> image,
                    isMenu |-> isMenu])]

\* dishesList.map((d, index) => ({...d, id, image, isMenu})); times[i] is the
\* value of Date.now() when element i is mapped
ProcessDishes(parsedData, image, times) ==
    LET isMenu == ScanIsMenu(parsedData)
        dishesList == DishesList(parsedData)
    IN  [i \in 1..Len(dishesList) |->
            Spread(dishesList[i],
                   [id |-> DishId(times[i], i - 1),
                    image |-> IF isMenu THEN PromptUrl(dishesList[i]) ELSE image,
                    isMenu |-> isMenu])]

\* the values successive calls of Date.now() can return from clock value t0
ClockReadings(t0, n) ==
    {ts \in [1..n -> t0..MaxTime] : \A i \in 1..(n - 1) : ts[i] <= ts[i + 1]}

(* ---------------------------- Results layout --------------------------- *)

\* const isListView = results.length > 1
isListView(results) == Len(results) > 1

\* the layouts the main content of Results renders for a result list
RenderedLayouts(results) ==
    (IF Len(results) = 0 THEN {"empty"} ELSE {})
    \cup (IF isListView(results) THEN {"list"} ELSE {"single"})

\* SingleItemLayout reads results[0].id and calls dish.tags.map, the detail
\* modal calls selectedItem.tags.map: rendering them without a first result
\* or without tags throws, and the error unmounts the application
RenderThrows(screen, results, selected) ==
    /\ screen = "results"
    /\ \/ /\ "single" \in RenderedLayouts(results)
          /\ \/ Len(results) = 0
             \/ "tags" \notin DOMAIN results[1]
       \/ /\ selected # <<>>
          /\ "tags" \notin DOMAIN selected[1]

Crashed == RenderThrows(currentScreen, currentResults, selectedItem)

\* useState(null) and useState('food'): Results keeps no state across mounts,
\* so while it is not on screen its state is the initial one
ResultsFresh ==
    /\ selectedItem' = <<>>
    /\ modalViewMode' = "food"

(* ------------------------------ scan runs ------------------------------ *)

\* One run per mount of Scanning (one execution of its effect).
\* progress and statusText are the component's state, which exists while the
\* component is mounted (an unmounted run shows the initial values).  now is
\* a lower bound of the next value of Date.now(); heldAt is that bound when
\* the 500 ms timer was set (0 when it is not pending).  phase is the position
\* of analyzeImage and its timers:
\*   "encode"   awaiting urlToBase64        "call"    awaiting generateContent
\*   "hold"     500 ms timer pending        "errwait" 3000 ms timer pending
\*   "over"     nothing of the run is pending any more
\* progress is in tenths of a point (1000 is 100%).
InitialStatus == "Identifying dish..."

NewRun(image) ==
    [image |-> image, isMounted |-> TRUE, interval |-> TRUE, phase |-> "encode",
     progress |-> 0, statusText |-> InitialStatus, dishes |-> <<>>,
     heldAt |-> 0]

RunIds == DOMAIN runs

\* mutant of Cleanup: the interval is not cleared on unmount
CleanupKeepsInterval(rs) ==
    [r \in DOMAIN rs |->
        IF rs[r].isMounted
        THEN [rs[r] EXCEPT !.isMounted = FALSE,
                           !.progress = 0, !.statusText = InitialStatus]
        ELSE rs[r]]

\* the effect's cleanup, run when Scanning unmounts
Cleanup(rs) ==
    [r \in DOMAIN rs |->
        IF rs[r].isMounted
        THEN [rs[r] EXCEPT !.isMounted = FALSE, !.interval = FALSE,
                           !.progress = 0, !.statusText = InitialStatus]
        ELSE rs[r]]

\* mutant of Catch: setProgress(0) is left out
CatchKeepsProgress(run) ==
    IF run.isMounted
    THEN [run EXCEPT !.interval = FALSE, !.statusText = "Error scanning. Try again.",
                     !.phase = "errwait"]
    ELSE [run EXCEPT !.interval = FALSE, !.phase = "over"]

\* mutant of Catch: the error is shown without asking isMounted
CatchUnguarded(run) ==
    [run EXCEPT !.interval = FALSE, !.statusText = "Error scanning. Try again.",
                !.progress = 0, !.phase = "errwait"]

\* the catch block of analyzeImage
Catch(run) ==
    IF run.isMounted
    THEN [run EXCEPT !.interval = FALSE, !.statusText = "Error scanning. Try again.",
                     !.progress = 0, !.phase = "errwait"]
    ELSE [run EXCEPT !.interval = FALSE, !.phase = "over"]

(* -------------------------------- actions ------------------------------ *)

Init ==
    /\ currentScreen = "home"
    /\ uploadedImage = NoImage
    /\ currentResults = <<>>
    /\ history = <<>>
    /\ savedItems = <<>>
    /\ runs = <<>>
    /\ now = StartTime
    /\ response = <<>>
    /\ selectedItem = <<>>
    /\ modalViewMode = "food"

\* Home calls onImageSelect with the chosen file
handleImageSelect ==
    /\ ~Crashed
    /\ response' = <<>>
    /\ currentScreen = "home"
    /\ Len(runs) < MaxScans
    /\ LET imageUrl == createObjectURL(Len(runs) + 1)
       IN  /\ uploadedImage' = imageUrl
           /\ currentScreen' = "scanning"
           /\ runs' = Append(runs, NewRun(imageUrl))
    /\ UNCHANGED <<currentResults, history, savedItems, now, resultsVars>>

\* shared body of handleScanCancel: back to home, photo forgotten
ScanCancel ==
    /\ currentScreen' = "home"
    /\ uploadedImage' = NoImage

\* the Cancel Scan button of Scanning
handleScanCancel ==
    /\ ~Crashed
    /\ response' = <<>>
    /\ currentScreen = "scanning"
    /\ ScanCancel
    /\ runs' = Cleanup(runs)
    /\ UNCHANGED <<currentResults, history, savedItems, now, resultsVars>>

\* mutant of ProgressStep: the first two rates are exchanged
ProgressStepAccelerating(prev) ==
    IF prev >= 950 THEN prev
    ELSE IF prev < 300 THEN prev + 10
    ELSE IF prev < 700 THEN prev + 30
    ELSE prev + 3

\* mutant of ProgressStep: ticks stop at 100 instead of 95
ProgressStepLateStop(prev) ==
    IF prev >= 1000 THEN prev
    ELSE IF prev < 300 THEN prev + 30
    ELSE IF prev < 700 THEN prev + 10
    ELSE prev + 3

\* the updater of the 100 ms progress interval, in tenths of a point
ProgressStep(prev) ==
    IF prev >= 950 THEN prev
    ELSE IF prev < 300 THEN prev + 30
    ELSE IF prev < 700 THEN prev + 10
    ELSE prev + 3

\* one firing of the 100 ms progress interval of run r
TickFires(r) ==
    /\ ~Crashed
    /\ response' = <<>>
    /\ runs[r].interval
    /\ runs' = [runs EXCEPT ![r].progress = ProgressStep(@)]
    /\ UNCHANGED <<appVars, now, resultsVars>>

\* the ticks Spec explores: the first ones of a run
Tick(r) ==
    /\ runs[r].progress < TickCap
    /\ TickFires(r)

\* urlToBase64 resolves: the status text changes if still mounted
EncodeResolves(r) ==
    /\ ~Crashed
    /\ response' = <<>>
    /\ runs[r].phase = "encode"
    /\ runs' = [runs EXCEPT ![r].phase = "call",
                            ![r].statusText =
                                IF runs[r].isMounted
                                THEN "Reading menu & analyzing..." ELSE @]
    /\ UNCHANGED <<appVars, now, resultsVars>>

\* urlToBase64 or generateContent rejects
CallRejects(r) ==
    /\ ~Crashed
    /\ response' = <<>>
    /\ runs[r].phase \in {"encode", "call"}
    /\ runs' = [runs EXCEPT ![r] = Catch(@)]
    /\ UNCHANGED <<appVars, now, resultsVars>>

\* generateContent resolves with resp: the rest of the try block.  response
\* records which run resumed and with what, until the next step.
CallResolves(r, resp) ==
    /\ ~Crashed
    /\ runs[r].phase = "call"
    /\ response' = <<[run |-> r, resp |-> resp]>>
    /\ LET run == [runs[r] EXCEPT !.interval = FALSE,
                                  !.progress = IF runs[r].isMounted THEN 1000 ELSE @]
           jsonText == StripFence(ResponseText(resp))
       IN  IF JsonParses(jsonText)
           THEN LET parsedData == JsonParse(jsonText)
                    n == Len(DishesList(parsedData))
                IN  \E times \in ClockReadings(now, n) :
                        /\ now' = IF n = 0 THEN now ELSE times[n]
                        /\ runs' = [runs EXCEPT ![r] =
                                      [run EXCEPT !.phase = "hold",
                                                  !.heldAt = now',
                                                  !.dishes = ProcessDishes(parsedData,
                                                                 run.image, times)]]
           ELSE /\ runs' = [runs EXCEPT ![r] = Catch(run)]
                /\ now' = now
    /\ UNCHANGED <<appVars, resultsVars>>

\* mutant of ScanComplete: history keeps the dishes of the last scan only
ScanCompleteReplacesHistory(results) ==
    /\ currentResults' = results
    /\ history' = results
    /\ currentScreen' = "results"

\* mutant of ScanComplete: the results are not added to history
ScanCompleteSkipsHistory(results) ==
    /\ currentResults' = results
    /\ history' = history
    /\ currentScreen' = "results"

\* mutant of ScanComplete: the results are put behind the older dishes
ScanCompleteAppends(results) ==
    /\ currentResults' = results
    /\ history' = history \o results
    /\ currentScreen' = "results"

\* handleScanComplete(results)
ScanComplete(results) ==
    /\ currentResults' = results
    /\ history' = results \o history
    /\ currentScreen' = "results"

\* mutant of AfterHold: the timer fires without any time having passed
AfterHoldNoDelay(heldAt) == now

\* the clock once the timer set at heldAt has fired: the delay has passed
AfterHold(heldAt) == IF now > heldAt THEN now ELSE heldAt + 1

\* mutant of HoldFires: onComplete is called without asking isMounted
HoldFiresUnguarded(r) ==
    /\ ~Crashed
    /\ response' = <<>>
    /\ runs[r].phase = "hold"
    /\ now' = AfterHold(runs[r].heldAt)
    /\ ScanComplete(runs[r].dishes)
    /\ runs' = Cleanup([runs EXCEPT ![r].phase = "over", ![r].heldAt = 0,
                                    ![r].dishes = <<>>])
    /\ IF currentScreen = "results" THEN UNCHANGED resultsVars ELSE ResultsFresh
    /\ UNCHANGED <<uploadedImage, savedItems>>

\* the 500 ms timer fires: if (isMounted) onComplete(processedDishes)
HoldFires(r) ==
    /\ ~Crashed
    /\ response' = <<>>
    /\ runs[r].phase = "hold"
    /\ now' = AfterHold(runs[r].heldAt)
    /\ IF runs[r].isMounted
       THEN /\ ScanComplete(runs[r].dishes)
            /\ runs' = Cleanup([runs EXCEPT ![r].phase = "over", ![r].heldAt = 0,
                                            ![r].dishes = <<>>])
            /\ ResultsFresh
            /\ UNCHANGED <<uploadedImage, savedItems>>
       ELSE /\ runs' = [runs EXCEPT ![r].phase = "over", ![r].heldAt = 0,
                                    ![r].dishes = <<>>]
            /\ UNCHANGED <<appVars, resultsVars>>

\* the 3000 ms timer fires: onCancel(), whatever has happened since
ErrorTimerFires(r) ==
    /\ ~Crashed
    /\ response' = <<>>
    /\ runs[r].phase = "errwait"
    /\ ScanCancel
    /\ runs' = Cleanup([runs EXCEPT ![r].phase = "over"])
    /\ ResultsFresh
    /\ UNCHANGED <<currentResults, history, savedItems, now>>

(* --------------------------- saved collection -------------------------- *)

\* list.some(item => item.id === dishId)
HasId(list, dishId) == \E i \in 1..Len(list) : list[i].id = dishId

\* list.find(d => d.id === dishId), for a list that has such an element
Find(list, dishId) ==
    list[CHOOSE i \in 1..Len(list) :
            /\ list[i].id = dishId
            /\ \A j \in 1..(i - 1) : list[j].id # dishId]

\* mutant of RemoveId: the filter keeps the entries it should drop
RemoveIdInverted(list, dishId) ==
    LET Keep(item) == item.id = dishId
    IN  SelectSeq(list, Keep)

\* prev.filter(item => item.id !== dishId)
RemoveId(list, dishId) ==
    LET Keep(item) == item.id # dishId
    IN  SelectSeq(list, Keep)

\* mutant of ToggleSave: the dish is added without looking at isAlreadySaved
ToggleSaveAlwaysAdds(saved, results, hist, dishId, t) ==
    IF HasId(results, dishId)
    THEN <<Spread(Find(results, dishId), [savedAt |-> t])>> \o saved
    ELSE IF HasId(hist, dishId)
         THEN <<Spread(Find(hist, dishId), [savedAt |-> t])>> \o saved
         ELSE saved

\* mutant of ToggleSave: the new entry is put behind the saved ones
ToggleSaveAppends(saved, results, hist, dishId, t) ==
    IF HasId(saved, dishId)
    THEN RemoveId(saved, dishId)
    ELSE IF HasId(results, dishId)
         THEN saved \o <<Spread(Find(results, dishId), [savedAt |-> t])>>
         ELSE IF HasId(hist, dishId)
              THEN saved \o <<Spread(Find(hist, dishId), [savedAt |-> t])>>
              ELSE saved

\* mutant of ToggleSave: an id that is not found is saved all the same
ToggleSaveUnknownInserts(saved, results, hist, dishId, t) ==
    IF HasId(saved, dishId)
    THEN RemoveId(saved, dishId)
    ELSE IF HasId(results, dishId)
         THEN <<Spread(Find(results, dishId), [savedAt |-> t])>> \o saved
         ELSE IF HasId(hist, dishId)
              THEN <<Spread(Find(hist, dishId), [savedAt |-> t])>> \o saved
              ELSE <<[id |-> dishId, savedAt |-> t]>> \o saved

\* mutant of ToggleSave: the entry keeps the id and the time, not the dish
ToggleSaveIdOnly(saved, results, hist, dishId, t) ==
    IF HasId(saved, dishId)
    THEN RemoveId(saved, dishId)
    ELSE IF HasId(results, dishId) \/ HasId(hist, dishId)
         THEN <<[id |-> dishId, savedAt |-> t]>> \o saved
         ELSE saved

\* savedItems after handleToggleSave(dishId) when new Date() is t
ToggleSave(saved, results, hist, dishId, t) ==
    IF HasId(saved, dishId)
    THEN RemoveId(saved, dishId)
    ELSE IF HasId(results, dishId)
         THEN <<Spread(Find(results, dishId), [savedAt |-> t])>> \o saved
         ELSE IF HasId(hist, dishId)
              THEN <<Spread(Find(hist, dishId), [savedAt |-> t])>> \o saved
              ELSE saved

IdsOf(list) == {list[i].id : i \in 1..Len(list)}

\* an id no scan has produced
UnknownId == "0"

\* the ids the screens pass to onSave / onToggleSave; while the detail modal
\* is open its backdrop covers the list, and only the modal's button remains
ToggleIds ==
    IF currentScreen = "results"
    THEN IF selectedItem # <<>> THEN {selectedItem[1].id} ELSE IdsOf(currentResults)
    ELSE IdsOf(history) \cup IdsOf(savedItems) \cup {UnknownId}

\* mutant of handleToggleSave: the dish of history is marked as toggled
handleToggleSaveMarksDish(dishId) ==
    /\ ~Crashed
    /\ response' = <<>>
    /\ currentScreen \in {"results", "history"}
    /\ \E t \in now..MaxTime :
          /\ t <= now + 1
          /\ savedItems' = ToggleSave(savedItems, currentResults, history, dishId, t)
          /\ now' = IF Len(savedItems') > Len(savedItems) THEN t ELSE now
    /\ Len(savedItems') <= MaxSaved
    /\ history' = [i \in DOMAIN history |->
                     IF history[i].id = dishId
                     THEN Spread(history[i], [toggled |-> TRUE])
                     ELSE history[i]]
    /\ UNCHANGED <<currentScreen, uploadedImage, currentResults, runs, resultsVars>>

handleToggleSave(dishId) ==
    /\ ~Crashed
    /\ response' = <<>>
    /\ currentScreen \in {"results", "history"}
    /\ \E t \in now..MaxTime :
          /\ t <= now + 1
          /\ savedItems' = ToggleSave(savedItems, currentResults, history, dishId, t)
          /\ now' = IF Len(savedItems') > Len(savedItems) THEN t ELSE now
    /\ Len(savedItems') <= MaxSaved
    /\ UNCHANGED <<currentScreen, uploadedImage, currentResults, history, runs,
                   resultsVars>>

(* ---------------------------- Results screen --------------------------- *)

\* a number n / 20 as a template literal prints it: no fraction when whole,
\* otherwise at most two decimals without trailing zero
NumberText(n) ==
    LET whole == n \div 20
        hundredths == (n % 20) * 5
    IN  IF hundredths = 0 THEN ToString(whole)
        ELSE IF hundredths % 10 = 0
             THEN ToString(whole) \o "." \o ToString(hundredths \div 10)
             ELSE IF hundredths < 10
                  THEN ToString(whole) \o ".0" \o ToString(hundredths)
                  ELSE ToString(whole) \o "." \o ToString(hundredths)

\* mutant of getThumbnailStyle: the box is read as [xmin, ymin, xmax, ymax]
getThumbnailStyleSwapped(dish) ==
    IF dish.isMenu THEN [objectFit |-> "cover"]
    ELSE IF "boundingBox" \in DOMAIN dish
         THEN LET xmin == dish.boundingBox[1]
                  ymin == dish.boundingBox[2]
                  xmax == dish.boundingBox[3]
                  ymax == dish.boundingBox[4]
              IN  [objectFit |-> "cover",
                   objectPosition |-> NumberText(xmin + xmax) \o "% "
                                          \o NumberText(ymin + ymax) \o "%",
                   transform |-> "scale(1.2)"]
         ELSE [objectFit |-> "cover"]

\* getThumbnailStyle(dish): cx = (xmin + xmax) / 2 / 10, cy likewise, for
\* integer coordinates
getThumbnailStyle(dish) ==
    IF dish.isMenu THEN [objectFit |-> "cover"]
    ELSE IF "boundingBox" \in DOMAIN dish
         THEN LET ymin == dish.boundingBox[1]
                  xmin == dish.boundingBox[2]
                  ymax == dish.boundingBox[3]
                  xmax == dish.boundingBox[4]
              IN  [objectFit |-> "cover",
                   objectPosition |-> NumberText(xmin + xmax) \o "% "
                                          \o NumberText(ymin + ymax) \o "%",
                   transform |-> "scale(1.2)"]
         ELSE [objectFit |-> "cover"]

\* the thumbnail styles ListLayout renders, one per result
Thumbnails ==
    IF currentScreen = "results" /\ isListView(currentResults)
    THEN [i \in 1..Len(currentResults) |-> getThumbnailStyle(currentResults[i])]
    ELSE <<>>

\* mutant of OpenMode: the mode of the last open is kept
OpenModeKept(dish) == modalViewMode

\* setModalViewMode(dish.isMenu ? 'food' : 'scan')
OpenMode(dish) == IF dish.isMenu THEN "food" ELSE "scan"

\* onClick of a list item: the detail modal opens on that dish
openItem(i) ==
    /\ ~Crashed
    /\ response' = <<>>
    /\ currentScreen = "results"
    /\ isListView(currentResults)
    /\ selectedItem = <<>>
    /\ selectedItem' = <<currentResults[i]>>
    /\ modalViewMode' = OpenMode(currentResults[i])
    /\ UNCHANGED <<appVars, runs, now>>

\* the backdrop and the close button of the modal: setSelectedItem(null)
closeModal ==
    /\ ~Crashed
    /\ response' = <<>>
    /\ currentScreen = "results"
    /\ selectedItem # <<>>
    /\ selectedItem' = <<>>
    /\ UNCHANGED <<appVars, runs, now, modalViewMode>>

\* the Food / Menu switch, rendered for a menu dish only
ViewModes == {"food", "scan"}

\* mutant of setModalViewMode: the switch is rendered for every dish
setModalViewModeAnyDish(mode) ==
    /\ ~Crashed
    /\ response' = <<>>
    /\ currentScreen = "results"
    /\ selectedItem # <<>>
    /\ modalViewMode' = mode
    /\ UNCHANGED <<appVars, runs, now, selectedItem>>

setModalViewMode(mode) ==
    /\ ~Crashed
    /\ response' = <<>>
    /\ currentScreen = "results"
    /\ selectedItem # <<>>
    /\ selectedItem[1].isMenu
    /\ modalViewMode' = mode
    /\ UNCHANGED <<appVars, runs, now, selectedItem>>

(* ------------------------------ navigation ----------------------------- *)

\* onBack of Results and of History: setCurrentScreen('home'); the header of
\* Results is covered by the backdrop while the detail modal is open
onBack ==
    /\ ~Crashed
    /\ response' = <<>>
    /\ currentScreen \in {"results", "history"}
    /\ selectedItem = <<>>
    /\ currentScreen' = "home"
    /\ ResultsFresh
    /\ UNCHANGED <<uploadedImage, currentResults, history, savedItems, runs, now>>

\* onNavigateHistory of Profile
onNavigateHistory ==
    /\ ~Crashed
    /\ response' = <<>>
    /\ currentScreen = "profile"
    /\ currentScreen' = "history"
    /\ UNCHANGED <<uploadedImage, currentResults, history, savedItems, runs, now,
                   resultsVars>>

\* the tabs of BottomNav, which is hidden while scanning
NavTabs == {"home", "history", "profile"}

onNavigate(screen) ==
    /\ ~Crashed
    /\ response' = <<>>
    /\ currentScreen # "scanning"
    /\ currentScreen # screen
    /\ currentScreen' = screen
    /\ ResultsFresh
    /\ UNCHANGED <<uploadedImage, currentResults, history, savedItems, runs, now>>

(* ----------------------------- specification --------------------------- *)

Next ==
    \/ handleImageSelect
    \/ handleScanCancel
    \/ \E r \in RunIds : Tick(r)
    \/ \E r \in RunIds : EncodeResolves(r)
    \/ \E r \in RunIds : CallRejects(r)
    \/ \E r \in RunIds : \E resp \in Responses : CallResolves(r, resp)
    \/ \E r \in RunIds : HoldFires(r)
    \/ \E r \in RunIds : ErrorTimerFires(r)
    \/ \E dishId \in ToggleIds : handleToggleSave(dishId)
    \/ \E i \in 1..Len(currentResults) : openItem(i)
    \/ closeModal
    \/ \E mode \in ViewModes : setModalViewMode(mode)
    \/ onBack
    \/ onNavigateHistory
    \/ \E screen \in NavTabs : onNavigate(screen)

Spec == Init /\ [][Next]_vars

\* a timer that analyzeImage has set fires when its delay has passed
TimerFires(r) ==
    /\ r \in RunIds
    /\ HoldFires(r) \/ ErrorTimerFires(r)

\* The session in which no pending timer is held back for ever.
SpecLive ==
    /\ Init
    /\ [][Next]_vars
    /\ \A r \in 1..MaxScans : WF_vars(TimerFires(r))

\* The scan screen with every tick of the progress interval: the steps of
\* Scanning, and the way back from Results to the next scan.
NextProgress ==
    \/ handleImageSelect
    \/ handleScanCancel
    \/ \E r \in RunIds : TickFires(r)
    \/ \E r \in RunIds : EncodeResolves(r)
    \/ \E r \in RunIds : CallRejects(r)
    \/ \E r \in RunIds : \E resp \in Responses : CallResolves(r, resp)
    \/ \E r \in RunIds : HoldFires(r)
    \/ \E r \in RunIds : ErrorTimerFires(r)
    \/ onBack

SpecProgress == Init /\ [][NextProgress]_vars

TypeOK ==
    /\ currentScreen \in {"home", "scanning", "results", "history", "profile"}
    /\ now \in StartTime..(MaxTime + MaxScans)
    /\ Len(runs) <= MaxScans
    /\ Len(savedItems) <= MaxSaved
    /\ Len(selectedItem) <= 1
    /\ modalViewMode \in ViewModes

\* The Results screen over a range of bounding boxes: the session starts when
\* Results has just received the two dishes of a first scan, the first with a
\* box drawn from Boxes and the second without a box.
Coords == {(1000 * k) \div CoordSteps : k \in 0..CoordSteps}

Boxes ==
    {<<ymin, xmin, ymax, xmax>> :
        ymin \in Coords, xmin \in Coords, ymax \in Coords, xmax \in Coords}
    \cup {RawPho.boundingBox}

RawBunCha ==
    [name |-> "Bun cha", originalName |-> "Bun cha", englishName |-> "Bun cha",
     description |-> "Grilled pork with noodles", tags |-> <<"Smoky">>,
     allergens |-> <<>>, spiceLevel |-> "None", category |-> "Main"]

BoxedResponses ==
    {[isMenu |-> m,
      dishes |-> <<[RawPho EXCEPT !.boundingBox = b], RawBunCha>>] :
        m \in BOOLEAN, b \in {c \in Boxes : c[1] <= c[3] /\ c[2] <= c[4]}}

InitResults ==
    \E parsedData \in BoxedResponses :
        LET imageUrl == createObjectURL(1)
            results == ProcessDishes(parsedData, imageUrl,
                                     [i \in 1..2 |-> StartTime])
        IN  /\ currentScreen = "results"
            /\ uploadedImage = imageUrl
            /\ currentResults = results
            /\ history = results
            /\ savedItems = <<>>
            /\ runs = Cleanup(<<[NewRun(imageUrl) EXCEPT !.phase = "over"]>>)
            /\ now = StartTime + 1
            /\ response = <<>>
            /\ selectedItem = <<>>
            /\ modalViewMode = "food"

NextResults ==
    \/ \E dishId \in ToggleIds : handleToggleSave(dishId)
    \/ \E i \in 1..Len(currentResults) : openItem(i)
    \/ closeModal
    \/ \E mode \in ViewModes : setModalViewMode(mode)
    \/ onBack
    \/ onNavigateHistory
    \/ \E screen \in NavTabs : onNavigate(screen)

SpecResults == InitResults /\ [][NextResults]_vars

(* ------------------------------- claims -------------------------------- *)

Outstanding(r) == runs[r].phase \in {"encode", "call", "hold"}

PairwiseDistinctIds(list) ==
    \A i, j \in 1..Len(list) : i # j => list[i].id # list[j].id

\* C1: a scan cancelled before its completion is handed off (also during the
\* 500 ms hold) never commits: a run once unmounted stays unmounted, and
\* currentResults and history change only when the hold timer of a run that
\* is still mounted fires, and then to exactly that run's dishes.
C1_CancelledScanNeverCommits ==
    [][ /\ \A r \in RunIds : ~runs[r].isMounted => ~runs'[r].isMounted
        /\ (history' # history \/ currentResults' # currentResults) =>
              \E r \in RunIds :
                  /\ runs[r].isMounted
                  /\ runs[r].phase = "hold"
                  /\ currentResults' = runs[r].dishes
                  /\ history' = runs[r].dishes \o history ]_vars

\* a scan has committed dishes and a later scan, cancelled during its hold,
\* still has its dishes and its timer pending
C1_Witness ==
    /\ history # <<>>
    /\ currentResults # <<>>
    /\ currentScreen = "home"
    /\ \E r \in RunIds :
          /\ r > 1
          /\ ~runs[r].isMounted
          /\ runs[r].phase = "hold"
          /\ runs[r].dishes # <<>>

\* C2: every step of a run that was cancelled while its request was
\* outstanding (its promises settling, its hold timer firing) leaves the App
\* state, every other run and the state of its own component unchanged.
C2_InvalidatedResponseHasNoEffect ==
    [][ \A r \in RunIds :
          (~runs[r].isMounted /\ Outstanding(r) /\ runs'[r] # runs[r]) =>
              /\ UNCHANGED appVars
              /\ \A q \in RunIds \ {r} : runs'[q] = runs[q]
              /\ runs'[r].progress = runs[r].progress
              /\ runs'[r].statusText = runs[r].statusText
              /\ runs'[r].phase # "errwait" ]_vars

\* scan 1 was cancelled with its request outstanding and the later scan 2 has
\* already committed its dishes: the response of scan 1 arrives last
C2_Witness ==
    /\ Len(runs) >= 2
    /\ ~runs[1].isMounted
    /\ runs[1].phase = "call"
    /\ runs[2].phase = "over"
    /\ currentScreen = "results"
    /\ history # <<>>

\* the ids handleToggleSave can be called with
AnyIds == IdsOf(currentResults) \cup IdsOf(history) \cup IdsOf(savedItems) \cup {UnknownId}

\* C3 as stated: toggling any id twice restores savedItems exactly.
C3_ToggleTwiceRestores ==
    \A dishId \in AnyIds : \A t1 \in now..MaxTime : \A t2 \in t1..MaxTime :
        ToggleSave(ToggleSave(savedItems, currentResults, history, dishId, t1),
                   currentResults, history, dishId, t2) = savedItems

\* C3 amended: toggling an id that is not saved twice restores savedItems
\* exactly; toggling a saved id twice keeps the other entries and their order
\* and puts a new snapshot of the id, saved at the time of the second call,
\* at the head.
C3_ToggleTwiceAmended ==
    \A dishId \in AnyIds : \A t1 \in now..MaxTime : \A t2 \in t1..MaxTime :
        LET once == ToggleSave(savedItems, currentResults, history, dishId, t1)
            twice == ToggleSave(once, currentResults, history, dishId, t2)
        IN  IF ~HasId(savedItems, dishId)
            THEN twice = savedItems
            ELSE /\ ~HasId(once, dishId)
                 /\ Len(twice) = Len(savedItems)
                 /\ twice[1].id = dishId
                 /\ twice[1].savedAt = t2
                 /\ Tail(twice) = RemoveId(savedItems, dishId)

\* two dishes are saved and a third id is known but not saved
C3_Witness ==
    /\ Len(savedItems) = 2
    /\ savedItems[2].savedAt < MaxTime
    /\ IdsOf(history) \ IdsOf(savedItems) # {}

\* C4: savedItems never holds two entries with the same id.
C4_SavedUniqueById == PairwiseDistinctIds(savedItems)

\* two dishes are saved after two committed scans, one of them cancelled
\* scans apart
C4_Witness ==
    /\ Len(savedItems) = 2
    /\ Len(runs) = 2
    /\ Len(history) > Len(currentResults)

\* C5: the Results screen renders exactly the layout its number of results
\* asks for: the empty state alone for none, the single card alone for one,
\* the list alone for two or more.
C5_ExactlyOneLayout ==
    currentScreen = "results" =>
        RenderedLayouts(currentResults) =
            IF Len(currentResults) = 0 THEN {"empty"}
            ELSE IF Len(currentResults) = 1 THEN {"single"}
            ELSE {"list"}

\* the ids of dishes that are in history only and are not saved
HistoryOnlyIds == IdsOf(history) \ (IdsOf(currentResults) \cup IdsOf(savedItems))

\* C6: toggling an unsaved id whose dish is in history but not in
\* currentResults succeeds, and every step that saves such an id puts at the
\* head of savedItems the historical dish, field by field, plus savedAt.
C6_HistoryOnlySnapshot ==
    /\ [](\A dishId \in HistoryOnlyIds : \A t \in now..MaxTime :
            HasId(ToggleSave(savedItems, currentResults, history, dishId, t), dishId))
    /\ [][ \A dishId \in HistoryOnlyIds :
             HasId(savedItems', dishId) =>
                 /\ Tail(savedItems') = savedItems
                 /\ DOMAIN savedItems'[1] = DOMAIN Find(history, dishId) \cup {"savedAt"}
                 /\ Without(savedItems'[1], "savedAt") = Find(history, dishId)
                 /\ savedItems'[1].savedAt = now' ]_vars

\* the dish saved last is one of an earlier scan: it is in history and not
\* among the current results
C6_Witness ==
    /\ currentScreen = "history"
    /\ savedItems # <<>>
    /\ savedItems[1].id \in IdsOf(history) \ IdsOf(currentResults)
    /\ savedItems[1].savedAt = now
    /\ Without(savedItems[1], "savedAt") = Find(history, savedItems[1].id)

UniformIsMenu(list) ==
    \A i, j \in 1..Len(list) : list[i].isMenu = list[j].isMenu

\* C7: the dishes a scan holds for onComplete, and the dishes onComplete has
\* received, have pairwise distinct ids and one isMenu value; when the
\* response carries the scan-level flag, that value is the flag.
C7_DistinctIdsUniformIsMenu ==
    /\ \A r \in RunIds :
          runs[r].phase = "hold" =>
              PairwiseDistinctIds(runs[r].dishes) /\ UniformIsMenu(runs[r].dishes)
    /\ PairwiseDistinctIds(currentResults) /\ UniformIsMenu(currentResults)
    /\ response # <<>> =>
          LET r == response[1].run
              resp == response[1].resp
          IN  (runs[r].phase = "hold" /\ ~resp.empty
                   /\ "isMenu" \in DOMAIN resp.body.value) =>
                  \A i \in 1..Len(runs[r].dishes) :
                      runs[r].dishes[i].isMenu = resp.body.value.isMenu

\* a menu response with two dishes has just been processed, both dishes
\* within the same millisecond
C7_Witness ==
    /\ response # <<>>
    /\ ~response[1].resp.empty
    /\ "isMenu" \in DOMAIN response[1].resp.body.value
    /\ response[1].resp.body.value.isMenu
    /\ runs[response[1].run].phase = "hold"
    /\ Len(runs[response[1].run].dishes) = 2
    /\ runs[response[1].run].dishes[1].id = DishId(now, 0)
    /\ runs[response[1].run].dishes[2].id = DishId(now, 1)

\* a well-formed JSON document between an opening and a closing code fence
IsFenced(resp) ==
    /\ ~resp.empty
    /\ resp.body.ok
    /\ StartsWith(resp.pre, Fence)
    /\ \E i \in 1..Len(resp.post) : StartsWith(Drop(resp.post, i - 1), Fence)

\* C8: a well-formed document wrapped in a code fence, whatever white space
\* surrounds the fence markers, never fails to parse and yields the dishes
\* that normalising the unfenced document yields.
C8_FencedEqualsUnfenced ==
    response # <<>> =>
        LET r == response[1].run
            resp == response[1].resp
            unfenced == [pre |-> <<>>, body |-> resp.body, post |-> <<>>]
        IN  IsFenced(resp) =>
                /\ runs[r].phase = "hold"
                /\ \E times \in ClockReadings(StartTime,
                                              Len(DishesList(JsonParse(unfenced)))) :
                      runs[r].dishes =
                          ProcessDishes(JsonParse(unfenced), runs[r].image, times)

\* the screen of run r shows the error of the catch block
ShowsError(run) ==
    /\ run.phase = "errwait"
    /\ run.statusText = "Error scanning. Try again."
    /\ run.progress = 0
    /\ ~run.interval

\* C9: when the call fails or the response does not parse while the scan is
\* on screen, no scan is started, the status is the error text, progress is 0
\* and the tick is stopped; nothing changes the error display, history or
\* currentResults until the scan leaves the screen; the 3000 ms timer returns
\* to home with uploadedImage cleared; and no step taken while a scan is on
\* screen before its hold changes history or currentResults.
C9_ErrorPath ==
    [][ \A r \in RunIds :
          /\ (runs[r].isMounted /\ runs[r].phase \in {"encode", "call"}
                  /\ runs'[r].isMounted /\ runs'[r].phase \notin {"encode", "call", "hold"}) =>
                 /\ ShowsError(runs'[r])
                 /\ Len(runs') = Len(runs)
                 /\ UNCHANGED appVars
          /\ (runs[r].isMounted /\ runs[r].phase = "errwait") =>
                 /\ ShowsError(runs[r])
                 /\ Len(runs') = Len(runs)
                 /\ runs'[r].isMounted => runs'[r] = runs[r]
          /\ (runs[r].phase = "errwait" /\ runs'[r].phase # "errwait") =>
                 /\ currentScreen' = "home"
                 /\ uploadedImage' = NoImage
                 /\ UNCHANGED <<currentResults, history, savedItems>>
          /\ (runs[r].isMounted /\ runs[r].phase # "hold") =>
                 UNCHANGED <<currentResults, history>> ]_vars

\* the second scan, with dishes of the first in history, shows the error
\* after its response did not parse
C9_Witness ==
    /\ history # <<>>
    /\ response # <<>>
    /\ response[1].run = 2
    /\ runs[2].isMounted
    /\ ShowsError(runs[2])
    /\ currentScreen = "scanning"
    /\ uploadedImage = runs[2].image

\* required of every dish by responseSchema
RequiredDishFields ==
    {"name", "originalName", "englishName", "description", "tags", "allergens",
     "spiceLevel", "category", "boundingBox"}

\* C10: a response that parses but lacks isMenu, or has a dish that lacks a
\* required field, takes the error path: its run holds no dishes for
\* onComplete.
C10_IncompleteResponseRejected ==
    response # <<>> =>
        LET r == response[1].run
            resp == response[1].resp
            jsonText == StripFence(ResponseText(resp))
            parsedData == JsonParse(jsonText)
        IN  (/\ ~resp.empty
             /\ JsonParses(jsonText)
             /\ \/ "isMenu" \notin DOMAIN parsedData
                \/ \E i \in 1..Len(DishesList(parsedData)) :
                      ~(RequiredDishFields \subseteq DOMAIN DishesList(parsedData)[i]))
            => runs[r].phase # "hold"

HasSequence(d, f) == f \in DOMAIN d /\ DOMAIN d[f] = 1..Len(d[f])

\* C11: every dish the normaliser produces, and so every dish of history,
\* carries tags and allergens that are sequences (empty when the response
\* dish omitted them).
C11_TagsAllergensDefaulted ==
    /\ \A r \in RunIds : \A i \in 1..Len(runs[r].dishes) :
          HasSequence(runs[r].dishes[i], "tags")
              /\ HasSequence(runs[r].dishes[i], "allergens")
    /\ \A i \in 1..Len(history) :
          HasSequence(history[i], "tags") /\ HasSequence(history[i], "allergens")

\* C12: while the analysis call of a run has not resolved, its progress is
\* below 95.3 whatever the number of ticks; progress is 100 only on a run
\* whose call has returned and whose response was accepted (its hold is
\* pending) and that is still on screen.
C12_ProgressCeiling ==
    \A r \in RunIds :
        /\ runs[r].phase \in {"encode", "call"} => runs[r].progress < 953
        /\ runs[r].progress >= 953 =>
              /\ runs[r].progress = 1000
              /\ runs[r].phase = "hold"
              /\ runs[r].isMounted

\* a run has ticked up to the ceiling while its call is outstanding
C12_Witness ==
    \E r \in RunIds :
        /\ runs[r].phase = "call"
        /\ runs[r].interval
        /\ runs[r].progress = 952
        /\ ProgressStep(runs[r].progress) = runs[r].progress

\* C13: Errored is entered from Running only.  The step in which the call of
\* a run on screen resolves forces its progress to 100 (Completing) before
\* anything else; that run does not show the error (progress 0, error
\* status, delayed cancel pending) after this step or any later one.
C13_NoErrorAfterCompleting ==
    [][ \A r \in RunIds :
          /\ (response' # <<>> /\ response'[1].run = r /\ runs[r].isMounted) =>
                 ~ShowsError(runs'[r])
          /\ runs[r].phase \in {"hold", "over"} => runs'[r].phase # "errwait" ]_vars

\* C14: the tick timer of a run is live only while the run is on screen and
\* its call has not settled, and the progress of a run moves to a tick value
\* only in such a state: no tick fires after the call has resolved or
\* rejected, or after the cancel or unmount of the scan.
C14_NoTickAfterSettleOrCancel ==
    /\ [](\A r \in RunIds :
            runs[r].interval =>
                runs[r].isMounted /\ runs[r].phase \in {"encode", "call"})
    /\ [][ \A r \in RunIds :
             runs'[r].progress \notin {runs[r].progress, 0, 1000} =>
                 /\ runs[r].isMounted
                 /\ runs[r].phase \in {"encode", "call"}
                 /\ runs'[r].phase = runs[r].phase ]_vars

\* the first scan was cancelled with its call outstanding, the second has
\* ticked and its call has resolved: both timers are cleared
C14_Witness ==
    /\ Len(runs) = 2
    /\ ~runs[1].isMounted /\ runs[1].phase = "call" /\ ~runs[1].interval
    /\ runs[2].isMounted /\ runs[2].phase = "hold" /\ ~runs[2].interval
    /\ runs[2].progress = 1000

\* C15: the thumbnail of a non-menu dish with bounding box
\* [yMin, xMin, yMax, xMax] has the focal point ((xMin + xMax) / 2 / 10 %,
\* (yMin + yMax) / 2 / 10 %), (25%, 40%) for [200, 100, 600, 400], and the
\* mild zoom; the thumbnail of a menu dish or of a dish without a box has
\* neither focal point nor zoom.
C15_ThumbnailFocalPoint ==
    \A i \in DOMAIN Thumbnails :
        LET dish == currentResults[i]
            style == Thumbnails[i]
        IN  IF ~dish.isMenu /\ "boundingBox" \in DOMAIN dish
            THEN LET yMin == dish.boundingBox[1]
                     xMin == dish.boundingBox[2]
                     yMax == dish.boundingBox[3]
                     xMax == dish.boundingBox[4]
                 IN  /\ DOMAIN style = {"objectFit", "objectPosition", "transform"}
                     /\ style.objectPosition =
                            NumberText(xMin + xMax) \o "% " \o NumberText(yMin + yMax) \o "%"
                     /\ dish.boundingBox = <<200, 100, 600, 400>> =>
                            style.objectPosition = "25% 40%"
                     /\ dish.boundingBox = <<0, 333, 666, 1000>> =>
                            style.objectPosition = "66.65% 33.3%"
            ELSE DOMAIN style = {"objectFit"}

\* the list shows a photographed dish with the box [200, 100, 600, 400] and a
\* dish without a box
C15_Witness ==
    /\ currentScreen = "results"
    /\ Len(currentResults) = 2
    /\ ~currentResults[1].isMenu
    /\ currentResults[1].boundingBox = <<200, 100, 600, 400>>
    /\ Thumbnails[1].objectPosition = "25% 40%"
    /\ "boundingBox" \notin DOMAIN currentResults[2]
    /\ "objectPosition" \notin DOMAIN Thumbnails[2]

\* the ids of dishes that exist and are not saved
UnsavedIds == (IdsOf(currentResults) \cup IdsOf(history)) \ IdsOf(savedItems)

\* the dish handleToggleSave saves for an id: the one of currentResults if
\* there is one, otherwise the one of history
DishToSave(dishId) ==
    IF HasId(currentResults, dishId) THEN Find(currentResults, dishId)
    ELSE Find(history, dishId)

\* C16: toggling an id that is not saved and whose dish exists puts exactly
\* one entry for it at the head of savedItems and keeps the saved entries
\* behind it as they were; the entry is the dish of currentResults if the id
\* is there and the dish of history otherwise.  Every step that saves an id
\* does so.
C16_UnsavedIdPrepended ==
    /\ [](\A dishId \in UnsavedIds : \A t \in now..MaxTime :
            LET after == ToggleSave(savedItems, currentResults, history, dishId, t)
            IN  /\ Len(after) = Len(savedItems) + 1
                /\ SubSeq(after, 2, Len(after)) = savedItems
                /\ after[1] = Spread(DishToSave(dishId), [savedAt |-> t]))
    /\ [][ Len(savedItems') > Len(savedItems) =>
             /\ savedItems'[1].id \in UnsavedIds
             /\ Without(savedItems'[1], "savedAt") = DishToSave(savedItems'[1].id)
             /\ Tail(savedItems') = savedItems ]_vars

\* on the Results screen a current result was saved on top of a dish saved
\* before, which is no current result
C16_Witness ==
    /\ currentScreen = "results"
    /\ Len(savedItems) = 2
    /\ savedItems[1].id \in IdsOf(currentResults)
    /\ savedItems[2].id \notin IdsOf(currentResults)
    /\ savedItems[1].savedAt >= savedItems[2].savedAt

KnownIds == IdsOf(currentResults) \cup IdsOf(history) \cup IdsOf(savedItems)

\* C17: toggling an id that is neither saved nor the id of a dish of
\* currentResults or history changes nothing: the handler computes the same
\* savedItems, and the step it takes leaves savedItems, history,
\* currentResults, currentScreen and uploadedImage (and the scans and the
\* Results screen) as they were.
C17_UnknownIdIsNoOp ==
    /\ [](\A dishId \in {UnknownId} \ KnownIds : \A t \in now..MaxTime :
            ToggleSave(savedItems, currentResults, history, dishId, t) = savedItems)
    /\ [][ \A dishId \in {UnknownId} \ KnownIds :
             handleToggleSave(dishId) =>
                 UNCHANGED <<appVars, runs, now, resultsVars>> ]_vars

\* the History screen of a session with scanned and saved dishes, on which
\* the handler can be called with an id that no dish has
C17_Witness ==
    /\ currentScreen = "history"
    /\ history # <<>>
    /\ savedItems # <<>>
    /\ UnknownId \in ToggleIds \ KnownIds
    /\ ENABLED handleToggleSave(UnknownId)

\* C18: every step that opens a dish in the detail modal, the first open as
\* well as an open after a close and after a switch of mode, sets the mode to
\* 'food' for a menu dish and to 'scan' otherwise; closing the modal clears
\* the selection and leaves the mode alone; and a mode left by an earlier
\* open never decides the mode of the next one.
C18_ModeChosenAtEveryOpen ==
    [][ /\ (selectedItem = <<>> /\ selectedItem' # <<>>) =>
              /\ selectedItem'[1] \in {currentResults[i] : i \in DOMAIN currentResults}
              /\ modalViewMode' = IF selectedItem'[1].isMenu THEN "food" ELSE "scan"
        /\ (selectedItem # <<>> /\ selectedItem' = <<>> /\ currentScreen' = "results") =>
              modalViewMode' = modalViewMode
        /\ (selectedItem # <<>> /\ selectedItem' # <<>>) =>
              selectedItem' = selectedItem ]_vars

\* a menu dish was opened, switched to the scan view and closed: the mode
\* left behind is not the one the next open has to show
C18_Witness ==
    /\ currentScreen = "results"
    /\ isListView(currentResults)
    /\ currentResults[1].isMenu
    /\ selectedItem = <<>>
    /\ modalViewMode = "scan"

\* the fields of dish d that the response dish raw has
Restrict(d, raw) == [f \in DOMAIN raw |-> d[f]]

\* C19: history is a log, newest first.  The dishes a scan holds are the
\* dishes of its response in the order of the response; when the hold of a
\* scan on screen ends, history becomes these dishes followed by the previous
\* history, whatever the previous history holds; and no other step changes
\* history.
C19_HistoryAppendOnly ==
    /\ [](response # <<>> =>
            LET r == response[1].run
                raws == DishesList(JsonParse(StripFence(ResponseText(response[1].resp))))
            IN  runs[r].phase = "hold" =>
                    /\ Len(runs[r].dishes) = Len(raws)
                    /\ \A i \in 1..Len(raws) : Restrict(runs[r].dishes[i], raws[i]) = raws[i])
    /\ [][ /\ \A r \in RunIds :
                (runs[r].isMounted /\ runs[r].phase = "hold" /\ runs'[r].phase # "hold") =>
                    /\ Len(history') = Len(runs[r].dishes) + Len(history)
                    /\ SubSeq(history', 1, Len(runs[r].dishes)) = runs[r].dishes
                    /\ SubSeq(history', Len(runs[r].dishes) + 1, Len(history')) = history
           /\ history' # history =>
                \E r \in RunIds :
                    runs[r].isMounted /\ runs[r].phase = "hold" /\ runs'[r].phase # "hold"
         ]_vars

\* two scans of the same two dishes have completed: history holds the dishes
\* of the second scan before the equal dishes of the first
C19_Witness ==
    /\ Len(history) = 4
    /\ currentResults = SubSeq(history, 1, 2)
    /\ \A i \in 1..2 :
          /\ Without(history[i], "id") = Without(history[i + 2], "id")
          /\ history[i].id # history[i + 2].id

\* C20: of the dishes a scan has produced from its response, each has as
\* image the illustrative-image URL of its English name when the response
\* says menu, and the photo uploaded for that very scan otherwise; each has
\* the boundingBox of its response dish, and none when that dish has none.
C20_ImageAndBoxResolution ==
    response # <<>> =>
        LET r == response[1].run
            parsedData == JsonParse(StripFence(ResponseText(response[1].resp)))
            raws == DishesList(parsedData)
            menu == "isMenu" \in DOMAIN parsedData /\ parsedData.isMenu
        IN  runs[r].phase = "hold" =>
                \A i \in 1..Len(raws) :
                    LET dish == runs[r].dishes[i]
                    IN  /\ dish.image =
                               IF menu
                               THEN "https://image.pollinations.ai/prompt/"
                                        \o encodeURIComponent(raws[i].englishName)
                                        \o "%20delicious%20food%20professional%20photography%204k?nologo=true"
                               ELSE createObjectURL(r)
                        /\ ("boundingBox" \in DOMAIN dish) = ("boundingBox" \in DOMAIN raws[i])
                        /\ "boundingBox" \in DOMAIN dish =>
                               dish.boundingBox = raws[i].boundingBox

\* the response of the first scan, a photo of two dishes, is processed after
\* that scan was cancelled and a second photo was selected
C20_Witness ==
    /\ response # <<>>
    /\ response[1].run = 1
    /\ Len(runs) = 2
    /\ uploadedImage = createObjectURL(2)
    /\ runs[1].phase = "hold"
    /\ Len(runs[1].dishes) = 2
    /\ runs[1].dishes[1].image = createObjectURL(1)
    /\ runs[1].dishes[1].boundingBox = <<200, 100, 600, 400>>
    /\ "boundingBox" \notin DOMAIN runs[1].dishes[2]

\* C21: in every state each dish of currentResults that is no menu dish has
\* as image the current uploadedImage, also after a later photo was selected
\* or a later scan was cancelled.
C21_PhotoDishImageIsUpload ==
    \A i \in 1..Len(currentResults) :
        ~currentResults[i].isMenu => currentResults[i].image = uploadedImage

\* C22: the step from the Results screen back to home empties currentResults
\* and leaves history and savedItems as they were.
C22_BackResetsCurrentResults ==
    [][ (currentScreen = "results" /\ currentScreen' = "home") =>
            /\ currentResults' = <<>>
            /\ UNCHANGED <<history, savedItems>> ]_vars

\* C23: dish ids are unique within the session: the entries of history, from
\* whatever scans and positions, have pairwise distinct ids, and the dishes a
\* scan on screen holds for onComplete have ids that no entry of history has.
C23_SessionUniqueIds ==
    /\ PairwiseDistinctIds(history)
    /\ \A r \in RunIds :
          (runs[r].isMounted /\ runs[r].phase = "hold") =>
              IdsOf(runs[r].dishes) \cap IdsOf(history) = {}

\* a scan of two dishes and a later scan of one dish have completed, the
\* later one as soon as the clock allowed
C23_Witness ==
    /\ Len(history) = 3
    /\ Len(currentResults) = 1
    /\ currentResults[1] = history[1]
    /\ history[1].id = DishId(StartTime + 1, 0)
    /\ history[2].id = DishId(StartTime, 0)
    /\ history[3].id = DishId(StartTime, 1)

\* C24: a step of toggleSave, for an id saved or not, found or not, leaves
\* currentResults and history as they were and changes in savedItems nothing
\* but the presence of an entry with that id.
C24_ToggleSaveKeepsDishes ==
    [][ \A dishId \in AnyIds :
          handleToggleSave(dishId) =>
              /\ UNCHANGED <<currentResults, history>>
              /\ RemoveId(savedItems', dishId) = RemoveId(savedItems, dishId)
              /\ HasId(savedItems', dishId) # HasId(savedItems, dishId)
                     \/ savedItems' = savedItems ]_vars

\* the first result of the Results screen has just been saved: it is the
\* only saved entry and still the first dish of currentResults and history
C24_Witness ==
    /\ currentScreen = "results"
    /\ Len(savedItems) = 1
    /\ savedItems[1].savedAt = now
    /\ Without(savedItems[1], "savedAt") = currentResults[1]
    /\ history[1] = currentResults[1]
    /\ "savedAt" \notin DOMAIN history[1]

\* C25: the delayed cancellation of a failed scan affects that scan only:
\* when its timer fires after the scan has left the screen, the step changes
\* neither currentScreen nor uploadedImage and no other scan.
C25_StaleErrorTimerHasNoEffect ==
    [][ \A r \in RunIds :
          (~runs[r].isMounted /\ runs[r].phase = "errwait"
               /\ runs'[r].phase # "errwait") =>
              /\ UNCHANGED <<currentScreen, uploadedImage>>
              /\ \A q \in RunIds \ {r} : runs'[q] = runs[q] ]_vars

\* the increment, in tenths of a point, the schedule gives at progress p
ScheduledIncrement(p) ==
    IF p < 300 THEN 30 ELSE IF p < 700 THEN 10 ELSE IF p < 950 THEN 3 ELSE 0

\* C26: every tick of a running scan leaves progress where it is or raises
\* it, by 3 below 30, by 1 from 30 to below 70, by 0.3 from 70 to below 95
\* and by 0 from 95 on; and the increment of the next tick is never larger
\* than the one of this tick.
C26_DeceleratingTicks ==
    [][ \A r \in RunIds :
          TickFires(r) =>
              LET before == runs[r].progress
                  after == runs'[r].progress
              IN  /\ after >= before
                  /\ after - before = ScheduledIncrement(before)
                  /\ ProgressStep(after) - after <= after - before ]_vars

\* a running scan has ticked through the first two rates into the third
C26_Witness ==
    \E r \in RunIds :
        /\ runs[r].isMounted
        /\ runs[r].interval
        /\ runs[r].phase = "encode"
        /\ runs[r].progress = 703

\* run r is the scan on screen and has left analyzeImage with a timer set
Settled(r) ==
    /\ r \in RunIds
    /\ runs[r].isMounted
    /\ runs[r].phase \in {"hold", "errwait"}

OffScreen(r) == r \in RunIds /\ ~runs[r].isMounted

\* C27: a scan on screen whose call has settled is eventually off screen; a
\* step other than the user's cancel takes a scan off screen only after its
\* call has settled, to the Results screen with its dishes committed when the
\* response parsed and to home with uploadedImage cleared otherwise; and
\* while its call has not settled and the user does not cancel, the scan
\* stays on the scanning screen with progress below 100.
C27_ScanEventuallyLeaves ==
    /\ \A r \in 1..MaxScans : Settled(r) ~> OffScreen(r)
    /\ [][ \A r \in RunIds :
             (runs[r].isMounted /\ ~handleScanCancel) =>
                 /\ (~runs'[r].isMounted /\ runs[r].phase = "hold") =>
                        /\ currentScreen' = "results"
                        /\ currentResults' = runs[r].dishes
                        /\ history' = runs[r].dishes \o history
                 /\ (~runs'[r].isMounted /\ runs[r].phase = "errwait") =>
                        /\ currentScreen' = "home"
                        /\ uploadedImage' = NoImage
                 /\ (runs[r].phase \in {"encode", "call"}
                         /\ runs'[r].phase = runs[r].phase) =>
                        /\ runs'[r].isMounted
                        /\ currentScreen' = "scanning"
                        /\ runs'[r].progress < 1000 ]_vars

\* C28: in every state currentResults is a prefix of history, so that every
\* id found in currentResults is found in history, with the same dish.
C28_CurrentResultsPrefixOfHistory ==
    /\ Len(currentResults) <= Len(history)
    /\ SubSeq(history, 1, Len(currentResults)) = currentResults
    /\ \A dishId \in IdsOf(currentResults) :
          HasId(history, dishId)
              /\ Find(history, dishId) = Find(currentResults, dishId)

\* two photo scans of two dishes each have completed and the user looks at
\* the History screen: the results of the second scan head the history
C28_Witness ==
    /\ currentScreen = "history"
    /\ Len(history) = 4
    /\ Len(currentResults) = 2
    /\ ~history[1].isMenu
    /\ history[1].image # history[3].image

\* C29: in every state every entry of savedItems has the id of a dish of
\* history, and its fields other than savedAt are those of the dish of
\* history with that id.
C29_SavedEntriesBackedByHistory ==
    \A i \in 1..Len(savedItems) :
        /\ HasId(history, savedItems[i].id)
        /\ Without(savedItems[i], "savedAt") = Find(history, savedItems[i].id)
        /\ \A j \in 1..Len(history) :
              history[j].id = savedItems[i].id =>
                  history[j] = Without(savedItems[i], "savedAt")

\* a dish of the first scan was saved, a second scan has completed since and
\* the user is back on the home screen
C29_Witness ==
    /\ currentScreen = "home"
    /\ Len(savedItems) = 1
    /\ currentResults # <<>>
    /\ savedItems[1].id \notin IdsOf(currentResults)
    /\ savedItems[1].id = history[Len(history)].id

\* C30: whenever the detail modal shows a dish that is no menu dish, the
\* image mode is 'scan' and the switch of modes is not offered.
C30_PhotoDishShownAsScan ==
    (currentScreen = "results" /\ selectedItem # <<>> /\ ~selectedItem[1].isMenu) =>
        /\ modalViewMode = "scan"
        /\ \A mode \in ViewModes : ~ENABLED setModalViewMode(mode)

\* the second dish of a photo scan is shown in the detail modal
C30_Witness ==
    /\ currentScreen = "results"
    /\ Len(currentResults) = 2
    /\ selectedItem = <<currentResults[2]>>
    /\ ~selectedItem[1].isMenu
    /\ modalViewMode = "scan"

====
